---- MODULE Spec2Model ----
(***************************************************************************)
(* ShadowFlow: the coordinated-activity detection pipeline.                *)
(*   - analyzer/cluster.py        TradeClusterAnalyzer (sync clusters)     *)
(*   - ai/anomaly_detector.py     AnomalyDetector (risk aggregation)       *)
(*   - monitoring/realtime_monitor.py  RealTimeMonitor (alerts, fan-out)   *)
(***************************************************************************)
EXTENDS Integers, Sequences, FiniteSets, TLC

(***************************************************************************)
(* Bounds of the model.                                                    *)
(***************************************************************************)
\* Largest trade batch the analyzer is run on.
MaxTrades == 3
\* Analysis passes (scheduled or forced) the monitor starts.
MaxPasses == 2
\* Analysis passes of the monitor when only the histories are followed.
MaxHistoryPasses == 11
\* Commands one subscriber sends.
MaxCommands == 1
\* Analysis passes of the monitor when only the risk score is followed.
MaxRiskPasses == 1
\* Consecutive failed ticks after which the monitor would have to stop.
FailureBudget == 2
\* Malformed payloads one subscriber sends.
MaxRejected == 2
\* Trades of one batch the isolation forest flags as anomalous.
MaxFlagged == 2

(***************************************************************************)
(* Program constants.                                                      *)
(***************************************************************************)
DefaultRiskThreshold == 50
DefaultAnomalyThreshold == 15
DefaultClusterThreshold == 20
DefaultVolumeSpike == 2
VolumeHistoryMaxLen == 10
RiskHistoryMaxLen == 5
HighRiskSeverity == 80
HighAnomalySeverity == 25
HighSpikeSeverity == 5
ManipulationMarkets == 10
MinTradesForAnalysis == 10

(***************************************************************************)
(* Input domains.                                                          *)
(***************************************************************************)
\* trade.get('conditionId', ''): "" stands for a missing market id.
Markets == {"", "M1", "M2"}
\* trade.get('side', ''): HOLD stands for any side outside the enum.
Sides == {"BUY", "SELL", "HOLD"}
Timestamps == {0, 100, 500}
Wallets == {"w1", "w2"}
Sizes == {1, 6000}
\* TradeClusterAnalyzer(sync_threshold_seconds): 180 is the default.
SyncThresholds == {180, 400}

\* websocket connections that may subscribe
Clients == {"c1", "c2"}
\* the coroutines: the driver loop and one connection handler per subscriber
Tasks == {"loop"} \cup Clients

VARIABLES
    connected_clients,  \* RealTimeMonitor.connected_clients
    alert_thresholds,   \* RealTimeMonitor.alert_thresholds
    volume_history,     \* deque(maxlen=10)
    risk_history,       \* deque(maxlen=5)
    total_alerts,       \* stats['total_alerts']
    monitoring_active,  \* stats['monitoring_active']
    last_risk_score,    \* RealTimeMonitor.last_risk_score
    last_analysis_time, \* RealTimeMonitor.last_analysis_time, 0 for None
    clock,              \* datetime.now(): the number of passes that found trades
    conn,               \* per subscriber: "new", "open" or "closed" websocket
    commands,           \* per subscriber: the commands it has sent
    rejected,           \* history: per subscriber, the malformed payloads it has sent
    task_pc,            \* per coroutine: where it is suspended
    frame,              \* per coroutine: the broadcast_message call it is inside
    outbox,             \* per subscriber: the last message sent to it
    evaluations,        \* history: one record per pass that reached check_alerts
    sync_threshold,   \* TradeClusterAnalyzer.sync_threshold
    cache_trades,     \* the 'trades' list of the cache file
    analyzer_pc,      \* "load": batch being written, "done": find_all_clusters returned
    sync_clusters,    \* the clusters find_sync_clusters produced, group by group
    all_clusters,     \* the list find_all_clusters returned
    detector_trades,  \* the trades list passed to a detector of AnomalyDetector
    detector_pc,      \* "call": detector not yet called, "done": returned, "raised"
    detector_call,    \* the detector that was called, "none" before the call
    anomalous_trades, \* the list detect_anomalies returned
    wallet_clusters   \* the dict detect_wallet_clusters returned: name -> wallets

analyzer_vars == <<sync_threshold, cache_trades, analyzer_pc, sync_clusters, all_clusters>>

monitor_vars ==
    <<connected_clients, alert_thresholds, volume_history, risk_history, total_alerts,
      monitoring_active, last_risk_score, last_analysis_time, clock, conn, commands,
      rejected, task_pc, frame, outbox, evaluations>>

detector_vars ==
    <<detector_trades, detector_pc, detector_call, anomalous_trades, wallet_clusters>>

vars == <<monitor_vars, analyzer_vars, detector_vars>>

(***************************************************************************)
(* Helpers on sequences.                                                   *)
(***************************************************************************)
Range(s) == {s[i] : i \in DOMAIN s}

RECURSIVE SumOver(_, _)
\* sum(f for x in s), f given as a function on the elements of s
SumOver(s, f) == IF s = <<>> THEN 0 ELSE f[Head(s)] + SumOver(Tail(s), f)

(***************************************************************************)
(* TradeClusterAnalyzer.group_trades_by_market_and_side                    *)
(***************************************************************************)
\* the mutant: the key leaves the side out
GroupKeyNoSide(trade) == trade.conditionId \o ":"

\* key = f"{market_id}:{side}"
GroupKey(trade) == trade.conditionId \o ":" \o trade.side

\* if market_id and side in ['BUY', 'SELL']
Grouped(trade) == trade.conditionId # "" /\ trade.side \in {"BUY", "SELL"}

\* groups[key].append(trade): a dict keeps its keys in insertion order
AddToGroup(groups, key, trade) ==
    IF \E i \in DOMAIN groups : groups[i].key = key
    THEN [i \in DOMAIN groups |->
            IF groups[i].key = key
            THEN [groups[i] EXCEPT !.trades = Append(@, trade)]
            ELSE groups[i]]
    ELSE Append(groups, [key |-> key, trades |-> <<trade>>])

RECURSIVE GroupLoop(_, _)
GroupLoop(trades, groups) ==
    IF trades = <<>> THEN groups
    ELSE LET trade == Head(trades) IN
         GroupLoop(Tail(trades),
                   IF Grouped(trade)
                   THEN AddToGroup(groups, GroupKey(trade), trade)
                   ELSE groups)

group_trades_by_market_and_side(trades) == GroupLoop(trades, <<>>)

(***************************************************************************)
(* TradeClusterAnalyzer.find_sync_clusters                                 *)
(***************************************************************************)
RECURSIVE InsertByTimestamp(_, _)
\* a stable insertion: after every trade whose timestamp is <= the new one's
InsertByTimestamp(sorted, trade) ==
    IF sorted = <<>> THEN <<trade>>
    ELSE IF Head(sorted).timestamp <= trade.timestamp
         THEN <<Head(sorted)>> \o InsertByTimestamp(Tail(sorted), trade)
         ELSE <<trade>> \o sorted

RECURSIVE StableSortByTimestamp(_)
StableSortByTimestamp(trades) ==
    IF trades = <<>> THEN <<>>
    ELSE InsertByTimestamp(StableSortByTimestamp(SubSeq(trades, 1, Len(trades) - 1)),
                           trades[Len(trades)])

\* the mutant: the group is swept in input order
UnsortedTrades(trades_group) == trades_group

\* sorted(trades_group, key=lambda x: x['timestamp'])  (Python's sort is stable)
SortedTrades(trades_group) == StableSortByTimestamp(trades_group)

\* the mutant: the gap is measured to the cluster's first trade
GapToFirst(current_cluster, current_trade) ==
    current_trade.timestamp - current_cluster[1].timestamp

\* time_diff = current_trade['timestamp'] - last_trade_in_cluster['timestamp']
TimeDiff(current_cluster, current_trade) ==
    current_trade.timestamp - current_cluster[Len(current_cluster)].timestamp

\* the mutant: a cluster of one trade is kept too
KeepAnyCluster(clusters, current_cluster) == Append(clusters, current_cluster)

\* if len(current_cluster) > 1: clusters.append(current_cluster)
KeepCluster(clusters, current_cluster) ==
    IF Len(current_cluster) > 1 THEN Append(clusters, current_cluster) ELSE clusters

RECURSIVE SweepLoop(_, _, _, _, _)
\* for i in range(1, len(sorted_trades)), then the final cluster
SweepLoop(sorted_trades, i, current_cluster, clusters, threshold) ==
    IF i > Len(sorted_trades)
    THEN KeepCluster(clusters, current_cluster)
    ELSE LET current_trade == sorted_trades[i] IN
         IF TimeDiff(current_cluster, current_trade) <= threshold
         THEN SweepLoop(sorted_trades, i + 1, Append(current_cluster, current_trade),
                        clusters, threshold)
         ELSE SweepLoop(sorted_trades, i + 1, <<current_trade>>,
                        KeepCluster(clusters, current_cluster), threshold)

find_sync_clusters(trades_group, threshold) ==
    IF Len(trades_group) < 2 THEN <<>>
    ELSE LET sorted_trades == SortedTrades(trades_group) IN
         SweepLoop(sorted_trades, 2, <<sorted_trades[1]>>, <<>>, threshold)

RECURSIVE ClustersOfGroups(_, _)
\* for group_key, trades_group in groups.items(): find_sync_clusters(trades_group)
ClustersOfGroups(groups, threshold) ==
    IF groups = <<>> THEN <<>>
    ELSE find_sync_clusters(Head(groups).trades, threshold)
         \o ClustersOfGroups(Tail(groups), threshold)

\* grouping followed by the sweep of every group
SyncClustersOf(trades, threshold) ==
    ClustersOfGroups(group_trades_by_market_and_side(trades), threshold)

(***************************************************************************)
(* TradeClusterAnalyzer.get_time_spread, calculate_sync_score and          *)
(* analyze_cluster.  A score is the exact rational num / den.              *)
(***************************************************************************)
MinOf(S) == CHOOSE x \in S : \A y \in S : x <= y
MaxOf(S) == CHOOSE x \in S : \A y \in S : x >= y

RECURSIVE Gcd(_, _)
Gcd(a, b) == IF b = 0 THEN a ELSE Gcd(b, a % b)

\* a < b for two rationals with positive denominators
RatLess(a, b) ==
    LET g == Gcd(a.den, b.den) IN a.num * (b.den \div g) < b.num * (a.den \div g)

ClusterTimestamps(cluster) == {cluster[i].timestamp : i \in DOMAIN cluster}
ClusterWallets(cluster) == {cluster[i].proxyWallet : i \in DOMAIN cluster}
\* sum(trade['size'] for trade in cluster)
ClusterVolume(cluster) == SumOver(cluster, [t \in Range(cluster) |-> t.size])

\* max(timestamps) - min(timestamps)
get_time_spread(cluster) ==
    MaxOf(ClusterTimestamps(cluster)) - MinOf(ClusterTimestamps(cluster))

\* (time_factor * 0.5 + volume_factor * 0.3 + wallet_diversity * 0.2) * 100 with
\*   time_factor      = 1.0 - get_time_spread(cluster) / sync_threshold
\*   volume_factor    = min(1.0, volume / 10000)
\*   wallet_diversity = len(wallets) / len(cluster)
\* as a numerator over the denominator ScoreDen = sync_threshold * 1000 * len(cluster)
ScoreDen(cluster, threshold) == threshold * 1000 * Len(cluster)

RawScoreNum(cluster, threshold) ==
    LET n == Len(cluster)
        volume == ClusterVolume(cluster)
        capped == IF volume < 10000 THEN volume ELSE 10000
    IN  50000 * n * (threshold - get_time_spread(cluster))
        + 3 * threshold * n * capped
        + 20000 * threshold * Cardinality(ClusterWallets(cluster))

\* the mutant: min(100.0, sync_score), the lower clamp forgotten
ClampUpperOnly(num, den) == IF num > 100 * den THEN 100 * den ELSE num

\* max(0.0, min(100.0, sync_score))
ClampScore(num, den) ==
    LET upper == IF num > 100 * den THEN 100 * den ELSE num
    IN  IF upper < 0 THEN 0 ELSE upper

calculate_sync_score(cluster, threshold) ==
    IF Len(cluster) < 2 THEN [num |-> 0, den |-> 1]
    ELSE [num |-> ClampScore(RawScoreNum(cluster, threshold), ScoreDen(cluster, threshold)),
          den |-> ScoreDen(cluster, threshold)]

\* time_window = end_time - start_time, start_time = min(timestamps), end_time = max(timestamps)
TimeWindow(cluster) ==
    MaxOf(ClusterTimestamps(cluster)) - MinOf(ClusterTimestamps(cluster))

\* the metadata of a non-empty cluster (market_info = cluster[0])
analyze_cluster(cluster, threshold) ==
    [market_id           |-> cluster[1].conditionId,
     side                |-> cluster[1].side,
     wallets             |-> ClusterWallets(cluster),
     wallets_count       |-> Cardinality(ClusterWallets(cluster)),
     trades_count        |-> Len(cluster),
     total_volume        |-> ClusterVolume(cluster),
     time_window_seconds |-> TimeWindow(cluster),
     start_time          |-> MinOf(ClusterTimestamps(cluster)),
     end_time            |-> MaxOf(ClusterTimestamps(cluster)),
     sync_score          |-> calculate_sync_score(cluster, threshold)]

(***************************************************************************)
(* TradeClusterAnalyzer.find_all_clusters                                  *)
(***************************************************************************)
RECURSIVE InsertByScore(_, _)
\* a stable insertion in descending order of sync_score
InsertByScore(sorted, report) ==
    IF sorted = <<>> THEN <<report>>
    ELSE IF RatLess(Head(sorted).sync_score, report.sync_score)
         THEN <<report>> \o sorted
         ELSE <<Head(sorted)>> \o InsertByScore(Tail(sorted), report)

RECURSIVE SortByScoreDesc(_)
\* all_clusters.sort(key=lambda x: x['sync_score'], reverse=True)
SortByScoreDesc(reports) ==
    IF reports = <<>> THEN <<>>
    ELSE InsertByScore(SortByScoreDesc(SubSeq(reports, 1, Len(reports) - 1)),
                       reports[Len(reports)])

AnalysesOf(clusters, threshold) ==
    [i \in DOMAIN clusters |-> analyze_cluster(clusters[i], threshold)]

\* the cache file receives one more trade record; id is the record's identity
LoadTrade(trade) ==
    /\ analyzer_pc = "load"
    /\ Len(cache_trades) < MaxTrades
    /\ cache_trades' = Append(cache_trades,
                              [trade EXCEPT !.id = Len(cache_trades) + 1])
    /\ UNCHANGED <<sync_threshold, analyzer_pc, sync_clusters, all_clusters>>
    /\ UNCHANGED <<monitor_vars, detector_vars>>

\* load, group, sweep every group, analyze every cluster, sort by score
find_all_clusters ==
    /\ analyzer_pc = "load"
    /\ analyzer_pc' = "done"
    /\ LET clusters == IF cache_trades = <<>> THEN <<>>
                       ELSE SyncClustersOf(cache_trades, sync_threshold)
       IN  /\ sync_clusters' = clusters
           /\ all_clusters' = SortByScoreDesc(AnalysesOf(clusters, sync_threshold))
    /\ UNCHANGED <<sync_threshold, cache_trades>>
    /\ UNCHANGED <<monitor_vars, detector_vars>>

(***************************************************************************)
(* AnomalyDetector.comprehensive_analysis.  The detectors (IsolationForest, *)
(* DBSCAN, numpy statistics) are library code: a scan is a batch of the    *)
(* cache together with what the detectors find in it.  Numbers that are    *)
(* floats in the code are exact rationals num / den here.                  *)
(***************************************************************************)
Rat(n, d) == [num |-> n, den |-> d]
\* a >= b for two rationals with positive denominators
RatGeq(a, b) == a.num * b.den >= b.num * a.den
RatEq(a, b) == a.num * b.den = b.num * a.den

\* {}: a dict without keys
EmptyDict == <<>>

MinInt(a, b) == IF a < b THEN a ELSE b

\* results['anomalies']: count and percentage = count / len(trades) * 100
AnomaliesSection(scan) ==
    [count      |-> scan.anomalies,
     percentage |-> Rat(100 * scan.anomalies, scan.total_trades)]

\* the mutant: the four weighted factors summed without the 0-10 normalisation
\* of the cluster and price factors
UncappedRiskNum(scan) ==
    300 * scan.anomalies
    + scan.total_trades * (25 * (scan.wallet_clusters * 2)
                           + 20 * (IF scan.suspicious_pattern THEN 10 ELSE 0)
                           + 25 * (scan.suspicious_markets * 3))

\* the mutant: the temporal factor is 10 unless a suspicious pattern was found
TemporalInvertedRiskNum(scan) ==
    300 * scan.anomalies
    + scan.total_trades * (25 * MinInt(scan.wallet_clusters * 2, 10)
                           + 20 * (IF scan.suspicious_pattern THEN 0 ELSE 10)
                           + 25 * MinInt(scan.suspicious_markets * 3, 10))

\* the mutant: the raw factors weighted and summed, no min(total_risk, 100)
RiskScoreUncapped(scan) == Rat(UncappedRiskNum(scan), 100 * scan.total_trades)

\* total_risk = sum(risk * weight) over
\*   ('anomalies', percentage / 10, 0.3), ('wallet_clusters', min(count * 2, 10), 0.25),
\*   ('temporal_patterns', 10 or 0, 0.2), ('price_manipulation', min(signals * 3, 10), 0.25)
\* as a numerator over the denominator 100 * len(trades)
TotalRiskNum(scan) ==
    300 * scan.anomalies
    + scan.total_trades * (25 * MinInt(scan.wallet_clusters * 2, 10)
                           + 20 * (IF scan.suspicious_pattern THEN 10 ELSE 0)
                           + 25 * MinInt(scan.suspicious_markets * 3, 10))

\* results['risk_score'] = min(total_risk, 100)
RiskScore(scan) ==
    LET den == 100 * scan.total_trades
        num == TotalRiskNum(scan)
    IN  Rat(MinInt(num, 100 * den), den)

comprehensive_analysis(scan) ==
    IF scan.total_trades < MinTradesForAnalysis
    THEN [total_trades       |-> scan.total_trades,
          anomalies          |-> EmptyDict,
          wallet_clusters    |-> EmptyDict,
          temporal_patterns  |-> EmptyDict,
          price_manipulation |-> EmptyDict,
          risk_score         |-> Rat(0, 1),
          error              |-> TRUE]
    ELSE [total_trades       |-> scan.total_trades,
          anomalies          |-> AnomaliesSection(scan),
          wallet_clusters    |-> [count |-> scan.wallet_clusters],
          temporal_patterns  |-> [suspicious_pattern |-> scan.suspicious_pattern],
          price_manipulation |-> [suspicious         |-> scan.suspicious_markets > 0,
                                  suspicious_markets |-> scan.suspicious_markets],
          risk_score         |-> RiskScore(scan),
          error              |-> FALSE]

\* detect_anomalies returns [] for fewer trades
MinTradesForAnomalies == 10
\* detect_wallet_clusters returns {} for fewer trades
MinTradesForClusters == 10
\* trades a wallet needs to get a feature vector
MinWalletTrades == 3
\* detect_wallet_clusters returns {} for fewer feature vectors
MinWalletFeatures == 5
\* DBSCAN(eps=0.5, min_samples=5): a cluster has a core point, hence 5 members
DbscanMinSamples == 5

\* the mutant: a batch of one trade less than the minimum is scored
OneTradeShort(trades) == Len(trades) < MinTradesForAnomalies - 1

\* if len(trades) < 10: return []
TooFewForAnomalies(trades) == Len(trades) < MinTradesForAnomalies

\* trade with the keys detect_anomalies writes into it: the sign of the
\* isolation forest's decision function and the flag
Scored(trade, flagged) ==
    [anomaly_score |-> IF flagged THEN -1 ELSE 1, is_anomaly |-> flagged] @@ trade

\* AnomalyDetector.detect_anomalies: every trade of a batch of 10 or more gets
\* 'anomaly_score' and 'is_anomaly' assigned in place; the flagged ones, which
\* the fitted forest picks, are returned
\* the detector is scored on StandardScaler.fit_transform(extract_features(...)),
\* which raises ValueError on the 1-dimensional array of an empty batch
detect_anomalies(flagged) ==
    /\ detector_pc = "call"
    /\ flagged \subseteq DOMAIN detector_trades
    /\ Cardinality(flagged) <= MaxFlagged
    /\ detector_call' = "detect_anomalies"
    /\ IF TooFewForAnomalies(detector_trades)
       THEN /\ flagged = {}
            /\ anomalous_trades' = <<>>
            /\ detector_pc' = "done"
            /\ UNCHANGED detector_trades
       ELSE IF detector_trades = <<>>
       THEN /\ flagged = {}
            /\ detector_pc' = "raised"
            /\ UNCHANGED <<detector_trades, anomalous_trades>>
       ELSE /\ detector_trades' = [i \in DOMAIN detector_trades |->
                                     Scored(detector_trades[i], i \in flagged)]
            /\ anomalous_trades' =
                  SelectSeq(detector_trades', LAMBDA t : t.is_anomaly)
            /\ detector_pc' = "done"
    /\ UNCHANGED wallet_clusters
    /\ UNCHANGED <<monitor_vars, analyzer_vars>>

\* wallet_trades[wallet]: the trades of the batch with that wallet
WalletTradeList(trades, wallet) == SelectSeq(trades, LAMBDA t : t.wallet = wallet)

\* the keys of wallet_trades: trade.get('wallet', '') when it is not empty
WalletsOf(trades) == {trades[i].wallet : i \in DOMAIN trades} \ {""}

\* the mutant: two trades are enough for a feature vector
HasFeatureVectorFromTwo(trades, wallet) ==
    Len(WalletTradeList(trades, wallet)) >= MinWalletTrades - 1

\* if len(wallet_trade_list) >= 3: the wallet gets a feature vector
HasFeatureVector(trades, wallet) ==
    Len(WalletTradeList(trades, wallet)) >= MinWalletTrades

\* wallet_list: the wallets whose features go to DBSCAN
wallet_list(trades) == {w \in WalletsOf(trades) : HasFeatureVector(trades, w)}

\* AnomalyDetector.detect_wallet_clusters: {} for a batch of fewer than 10 trades
\* or fewer than 5 feature vectors; else the wallets DBSCAN does not label as
\* noise, by cluster.  With the wallets of WalletBatches DBSCAN finds no cluster
\* or one, `cluster`.
detect_wallet_clusters(cluster) ==
    /\ detector_pc = "call"
    /\ detector_call' = "detect_wallet_clusters"
    /\ IF \/ Len(detector_trades) < MinTradesForClusters
          \/ Cardinality(wallet_list(detector_trades)) < MinWalletFeatures
       THEN /\ cluster = {}
            /\ wallet_clusters' = EmptyDict
       ELSE /\ cluster \subseteq wallet_list(detector_trades)
            /\ cluster = {} \/ Cardinality(cluster) >= DbscanMinSamples
            /\ wallet_clusters' = IF cluster = {} THEN EmptyDict
                                  ELSE [cluster_0 |-> cluster]
    /\ detector_pc' = "done"
    /\ UNCHANGED <<detector_trades, anomalous_trades>>
    /\ UNCHANGED <<monitor_vars, analyzer_vars>>

\* the four detectors comprehensive_analysis calls one after the other
Detectors == {"anomalies", "wallet_clusters", "temporal_patterns", "price_manipulation"}

\* a batch on which the detector d raises (a trade without 'amount', a timestamp
\* datetime.fromtimestamp rejects, ...)
FailingScan(scan, d) == ("failed_detector" :> d) @@ scan

\* comprehensive_analysis calls the detectors outside any try block: what one of
\* them raises leaves comprehensive_analysis; a batch of fewer than 10 trades
\* returns before the first detector
DetectorRaises(scan) ==
    /\ scan.total_trades >= MinTradesForAnalysis
    /\ "failed_detector" \in DOMAIN scan

(***************************************************************************)
(* RealTimeMonitor.check_alerts                                            *)
(***************************************************************************)
\* d.get(key, default)
Get(d, key, default) == IF key \in DOMAIN d THEN d[key] ELSE default

Alert(type, severity, value, threshold) ==
    [type |-> type, severity |-> severity, value |-> value, threshold |-> threshold]

\* if analysis['risk_score'] >= self.alert_thresholds['risk_score']
HighRiskAlert(analysis, thresholds) ==
    IF RatGeq(analysis.risk_score, thresholds.risk_score)
    THEN <<Alert("high_risk",
                 IF RatGeq(analysis.risk_score, Rat(HighRiskSeverity, 1))
                 THEN "high" ELSE "medium",
                 analysis.risk_score, thresholds.risk_score)>>
    ELSE <<>>

\* if anomaly_percentage >= self.alert_thresholds['anomaly_percentage']
HighAnomaliesAlert(analysis, thresholds) ==
    LET anomaly_percentage == analysis.anomalies.percentage IN
    IF RatGeq(anomaly_percentage, thresholds.anomaly_percentage)
    THEN <<Alert("high_anomalies",
                 IF RatGeq(anomaly_percentage, Rat(HighAnomalySeverity, 1))
                 THEN "high" ELSE "medium",
                 anomaly_percentage, thresholds.anomaly_percentage)>>
    ELSE <<>>

\* if cluster_count >= self.alert_thresholds['cluster_count']
ManyClustersAlert(analysis, thresholds) ==
    LET cluster_count == Rat(analysis.wallet_clusters.count, 1) IN
    IF RatGeq(cluster_count, thresholds.cluster_count)
    THEN <<Alert("many_clusters", "medium", cluster_count, thresholds.cluster_count)>>
    ELSE <<>>

\* volume_growth = self.volume_history[-1] / self.volume_history[-2]
VolumeGrowth(history) == Rat(history[Len(history)], history[Len(history) - 1])

\* if len(self.volume_history) >= 2: if previous_volume > 0: if volume_growth >= ...
VolumeSpikeAlert(history, thresholds) ==
    IF Len(history) >= 2 /\ history[Len(history) - 1] > 0
          /\ RatGeq(VolumeGrowth(history), thresholds.volume_spike)
    THEN <<Alert("volume_spike",
                 IF RatGeq(VolumeGrowth(history), Rat(HighSpikeSeverity, 1))
                 THEN "high" ELSE "medium",
                 VolumeGrowth(history), thresholds.volume_spike)>>
    ELSE <<>>

\* if analysis['temporal_patterns'].get('suspicious_pattern', False)
SuspiciousPatternsAlert(analysis) ==
    IF Get(analysis.temporal_patterns, "suspicious_pattern", FALSE)
    THEN <<Alert("suspicious_patterns", "medium", [bool |-> TRUE], [bool |-> FALSE])>>
    ELSE <<>>

\* if manipulation_markets >= 10
PriceManipulationAlert(analysis) ==
    LET manipulation_markets ==
            Get(analysis.price_manipulation, "suspicious_markets", 0) IN
    IF manipulation_markets >= ManipulationMarkets
    THEN <<Alert("price_manipulation", "high", Rat(manipulation_markets, 1),
                 Rat(ManipulationMarkets, 1))>>
    ELSE <<>>

\* the alerts of a pass, or the KeyError that analysis['anomalies']['percentage']
\* (and ['wallet_clusters']['count']) raises on a section that is an empty dict
check_alerts(analysis, thresholds, history) ==
    IF "percentage" \notin DOMAIN analysis.anomalies
          \/ "count" \notin DOMAIN analysis.wallet_clusters
    THEN [raised |-> TRUE, alerts |-> <<>>]
    ELSE [raised |-> FALSE,
          alerts |-> HighRiskAlert(analysis, thresholds)
                     \o HighAnomaliesAlert(analysis, thresholds)
                     \o ManyClustersAlert(analysis, thresholds)
                     \o VolumeSpikeAlert(history, thresholds)
                     \o SuspiciousPatternsAlert(analysis)
                     \o PriceManipulationAlert(analysis)]

(***************************************************************************)
(* RealTimeMonitor: the state as one record, so that the code a coroutine  *)
(* runs between two suspension points composes into one step.              *)
(***************************************************************************)
MonitorState ==
    [clients            |-> connected_clients,
     thresholds         |-> alert_thresholds,
     volume_history     |-> volume_history,
     risk_history       |-> risk_history,
     total_alerts       |-> total_alerts,
     active             |-> monitoring_active,
     last_risk_score    |-> last_risk_score,
     last_analysis_time |-> last_analysis_time,
     clock              |-> clock,
     conn               |-> conn,
     commands           |-> commands,
     rejected           |-> rejected,
     pc                 |-> task_pc,
     frame              |-> frame,
     outbox             |-> outbox,
     evaluations        |-> evaluations]

Becomes(S) ==
    /\ connected_clients' = S.clients
    /\ alert_thresholds' = S.thresholds
    /\ volume_history' = S.volume_history
    /\ risk_history' = S.risk_history
    /\ total_alerts' = S.total_alerts
    /\ monitoring_active' = S.active
    /\ last_risk_score' = S.last_risk_score
    /\ last_analysis_time' = S.last_analysis_time
    /\ clock' = S.clock
    /\ conn' = S.conn
    /\ commands' = S.commands
    /\ rejected' = S.rejected
    /\ task_pc' = S.pc
    /\ frame' = S.frame
    /\ outbox' = S.outbox
    /\ evaluations' = S.evaluations
    /\ UNCHANGED <<analyzer_vars, detector_vars>>

\* the mutant: a full deque refuses the new entry
DequeAppendKeepOldest(deque, x, maxlen) ==
    IF Len(deque) >= maxlen THEN deque ELSE Append(deque, x)

\* deque(maxlen=...).append(x): a full deque discards its oldest entry
DequeAppend(deque, x, maxlen) ==
    IF Len(deque) >= maxlen THEN Append(Tail(deque), x) ELSE Append(deque, x)

\* no broadcast_message call in progress
NoFrame == [kind |-> "none"]
NoPending == [risk_score |-> Rat(0, 1), alerts |-> 0]
ErrorMessage == [type |-> "error"]
\* the error message of a pass whose analysis raised in a detector
DetectorErrorMessage == [type |-> "error", message |-> "detector"]
\* the answer to a payload json.loads cannot decode
JsonErrorMessage == [type |-> "error", message |-> "json_format"]
\* nothing sent yet
NoMessage == [type |-> "none"]

\* await websocket.send(json.dumps(message)) on an open connection
Send(S, c, msg) == [S EXCEPT !.outbox[c] = msg]

\* perform_analysis returns: the driver loop goes to asyncio.sleep(interval),
\* a connection handler back to waiting for the next message
AfterPass(S, t) ==
    [S EXCEPT !.pc[t] = IF t = "loop" THEN "sleep" ELSE "recv",
              !.frame[t] = NoFrame]

\* the mutant: the alert counter is set to the alerts of the pass, not increased
AfterBroadcastOverwritesCounter(S, t) ==
    LET fr == S.frame[t] IN
    IF fr.kind = "analysis_update"
    THEN AfterPass([S EXCEPT !.last_analysis_time = S.clock,
                             !.last_risk_score = fr.pending.risk_score,
                             !.total_alerts = fr.pending.alerts], t)
    ELSE IF fr.kind = "error"
    THEN AfterPass(S, t)
    ELSE [S EXCEPT !.pc[t] = "recv", !.frame[t] = NoFrame]

\* what follows the return of broadcast_message in its caller
AfterBroadcast(S, t) ==
    LET fr == S.frame[t] IN
    IF fr.kind = "analysis_update"
    THEN \* last_analysis_time, last_risk_score, stats['total_alerts'] += len(alerts)
         AfterPass([S EXCEPT !.last_analysis_time = S.clock,
                             !.last_risk_score = fr.pending.risk_score,
                             !.total_alerts = @ + fr.pending.alerts], t)
    ELSE IF fr.kind = "error"
    THEN AfterPass(S, t)
    ELSE \* thresholds_updated: handle_client_message returns
         [S EXCEPT !.pc[t] = "recv", !.frame[t] = NoFrame]

\* the mutant: the message is serialised at each send, its alerts naming the
\* thresholds in force at that moment
MessageReadAtSend(S, t) ==
    LET msg == S.frame[t].msg
        Current(a) ==
            CASE a.type = "high_risk" -> [a EXCEPT !.threshold = S.thresholds.risk_score]
              [] a.type = "high_anomalies" ->
                    [a EXCEPT !.threshold = S.thresholds.anomaly_percentage]
              [] a.type = "many_clusters" ->
                    [a EXCEPT !.threshold = S.thresholds.cluster_count]
              [] a.type = "volume_spike" ->
                    [a EXCEPT !.threshold = S.thresholds.volume_spike]
              [] OTHER -> a
    IN  IF msg.type = "analysis_update"
        THEN [msg EXCEPT !.alerts = [k \in DOMAIN msg.alerts |-> Current(msg.alerts[k])]]
        ELSE msg

\* message_str = json.dumps(message), made once before the loop: the values the
\* message had when broadcast_message was called
message_str(S, t) == S.frame[t].msg

\* one turn of `for client in self.connected_clients`: the send to client c, which
\* raises ConnectionClosed when the connection is closed
SendNext(S, t, c) ==
    LET S1 == [S EXCEPT !.frame[t].visited = @ \cup {c}] IN
    IF S.conn[c] = "open"
    THEN Send(S1, c, message_str(S, t))
    ELSE [S1 EXCEPT !.frame[t].disconnected = @ \cup {c}]

\* broadcast_message up to its first suspension: nothing to do without
\* subscribers, else the message is serialised once and sent to a first one
BroadcastBegin(S, t, kind, msg, pending, first) ==
    LET fr == [kind |-> kind, msg |-> msg, pending |-> pending,
               used |-> Cardinality(S.clients), start |-> S.clients,
               visited |-> {}, disconnected |-> {}]
        S1 == [S EXCEPT !.frame[t] = fr, !.pc[t] = "bcast"]
    IN  IF S.clients = {} THEN AfterBroadcast(S1, t) ELSE SendNext(S1, t, first)

\* the mutant: a failure of the error broadcast ends the driver loop
BroadcastErrorFatal(S, t, first) ==
    LET fr == S.frame[t] IN
    IF fr.kind = "analysis_update"
    THEN BroadcastBegin(S, t, "error", ErrorMessage, NoPending, first)
    ELSE IF fr.kind = "error" /\ t = "loop"
    THEN [S EXCEPT !.pc[t] = "crashed", !.frame[t] = NoFrame]
    ELSE [S EXCEPT !.pc[t] = "recv", !.frame[t] = NoFrame]

\* RuntimeError (set changed size during iteration) out of broadcast_message
BroadcastError(S, t, first) ==
    LET fr == S.frame[t] IN
    IF fr.kind = "analysis_update"
    THEN \* perform_analysis: except Exception -> broadcast the error message
         BroadcastBegin(S, t, "error", ErrorMessage, NoPending, first)
    ELSE IF fr.kind = "error" /\ t = "loop"
    THEN \* out of perform_analysis, caught by start_monitoring: asyncio.sleep(10)
         [S EXCEPT !.pc[t] = "backoff", !.frame[t] = NoFrame]
    ELSE \* caught by handle_client_message: except Exception -> logged
         [S EXCEPT !.pc[t] = "recv", !.frame[t] = NoFrame]

\* the subscribers the set iterator still yields: those of the start not yet
\* visited, and possibly one added since
MustVisit(S, t) == (S.frame[t].start \ S.frame[t].visited) \cap S.clients
MayVisit(S, t) == (S.clients \ S.frame[t].start) \ S.frame[t].visited

\* the coroutine resumes from `await client.send`: next(iterator), then either the
\* next send or the end of the loop and self.connected_clients -= disconnected
BroadcastResume(S, t, pick, first) ==
    LET fr == S.frame[t] IN
    IF Cardinality(S.clients) # fr.used
    THEN BroadcastError(S, t, first)
    ELSE IF pick = "end"
    THEN AfterBroadcast([S EXCEPT !.clients = @ \ fr.disconnected], t)
    ELSE SendNext(S, t, pick)

\* perform_analysis up to its first suspension
PassBegin(S, t, scan, first) ==
    IF scan.total_trades = 0
    THEN AfterPass(S, t)
    ELSE IF DetectorRaises(scan)
    THEN BroadcastBegin([S EXCEPT !.clock = @ + 1], t, "error",
                        DetectorErrorMessage, NoPending, first)
    ELSE LET S0 == [S EXCEPT !.clock = @ + 1]
             analysis == comprehensive_analysis(scan)
             S1 == [S0 EXCEPT
                      !.risk_history =
                          DequeAppend(@, analysis.risk_score, RiskHistoryMaxLen),
                      !.volume_history =
                          DequeAppend(@, scan.volume, VolumeHistoryMaxLen)]
             checked == check_alerts(analysis, S1.thresholds, S1.volume_history)
             S2 == [S1 EXCEPT !.evaluations =
                       Append(@, [timestamp      |-> S0.clock,
                                  task           |-> t,
                                  scan           |-> scan,
                                  analysis       |-> analysis,
                                  thresholds     |-> S1.thresholds,
                                  volume_history |-> S1.volume_history,
                                  raised         |-> checked.raised,
                                  alerts         |-> checked.alerts])]
         IN  IF checked.raised
             THEN BroadcastBegin(S2, t, "error", ErrorMessage, NoPending, first)
             ELSE BroadcastBegin(S2, t, "analysis_update",
                                 [type      |-> "analysis_update",
                                  timestamp |-> S0.clock,
                                  analysis  |-> analysis,
                                  alerts    |-> checked.alerts],
                                 [risk_score |-> analysis.risk_score,
                                  alerts     |-> Len(checked.alerts)],
                                 first)

\* a subscriber to send to first, when there is one
FirstOf(S, first) == S.clients = {} \/ first \in S.clients

(***************************************************************************)
(* The steps of the coroutines.                                            *)
(***************************************************************************)
\* start_monitoring: the flag is set, then `while monitoring_active:` runs
\* perform_analysis after each sleep
LoopIterate(scan, first, max_passes) ==
    /\ task_pc["loop"] \in {"init", "sleep", "backoff"}
    /\ LET S == IF task_pc["loop"] = "init"
                THEN [MonitorState EXCEPT !.active = TRUE]
                ELSE MonitorState
       IN  IF ~S.active
           THEN Becomes([S EXCEPT !.pc["loop"] = "stopped"])
           ELSE /\ clock < max_passes
                /\ FirstOf(S, first)
                /\ Becomes(PassBegin(S, "loop", scan, first))

\* a coroutine inside broadcast_message resumes
BroadcastStep(t, pick, first) ==
    /\ task_pc[t] = "bcast"
    /\ LET S == MonitorState IN
       /\ \/ Cardinality(S.clients) # S.frame[t].used
          \/ pick \in MustVisit(S, t) \cup MayVisit(S, t)
          \/ pick = "end" /\ MustVisit(S, t) = {}
       /\ FirstOf(S, first)
       /\ Becomes(BroadcastResume(S, t, pick, first))

\* register_client: the connection joins the set and is sent the current state,
\* or an error message when the cache holds nothing to analyse
Connect(c, type) ==
    /\ conn[c] = "new"
    /\ LET S == [MonitorState EXCEPT !.conn[c] = "open",
                                     !.clients = @ \cup {c},
                                     !.pc[c] = "recv"]
       IN  Becomes(Send(S, c, IF type = "error" THEN ErrorMessage
                              ELSE [type       |-> "current_state",
                                    thresholds |-> S.thresholds]))

\* self.alert_thresholds.update(data.get('thresholds', {}))
MergeThresholds(thresholds, update) ==
    [k \in DOMAIN thresholds \cup DOMAIN update |->
        IF k \in DOMAIN update THEN update[k] ELSE thresholds[k]]

\* handle_client_message: get_status
GetStatus(c) ==
    /\ task_pc[c] = "recv" /\ conn[c] = "open" /\ commands[c] < MaxCommands
    /\ LET S == [MonitorState EXCEPT !.commands[c] = @ + 1] IN
       Becomes(Send(S, c, [type              |-> "status",
                           monitoring_active |-> S.active,
                           connected_clients |-> Cardinality(S.clients),
                           last_analysis     |-> S.last_analysis_time,
                           total_alerts      |-> S.total_alerts]))

\* handle_client_message: update_thresholds
UpdateThresholds(c, update, first) ==
    /\ task_pc[c] = "recv" /\ conn[c] = "open" /\ commands[c] < MaxCommands
    /\ LET S == [MonitorState EXCEPT
                    !.commands[c] = @ + 1,
                    !.thresholds = MergeThresholds(@, update)]
       IN  /\ FirstOf(S, first)
           /\ Becomes(BroadcastBegin(S, c, "thresholds_updated",
                                     [type       |-> "thresholds_updated",
                                      thresholds |-> S.thresholds],
                                     NoPending, first))

\* handle_client_message: force_analysis
ForceAnalysis(c, scan, first, max_passes) ==
    /\ task_pc[c] = "recv" /\ conn[c] = "open" /\ commands[c] < MaxCommands
    /\ clock < max_passes
    /\ LET S == [MonitorState EXCEPT !.commands[c] = @ + 1] IN
       /\ FirstOf(S, first)
       /\ Becomes(PassBegin(S, c, scan, first))

\* the payloads handle_client_message cannot serve: text that is not JSON, JSON
\* that is not an object (data.get raises AttributeError), and update_thresholds
\* whose 'thresholds' is not a mapping (dict.update raises TypeError)
MalformedKinds == {"not_json", "not_object", "bad_arguments"}

\* handle_client_message on a malformed payload: `except json.JSONDecodeError`
\* sends the error message, `except Exception` only logs
Malformed(c, kind) ==
    /\ task_pc[c] = "recv" /\ conn[c] = "open" /\ Len(rejected[c]) < MaxRejected
    /\ LET S == [MonitorState EXCEPT !.rejected[c] = Append(@, kind)] IN
       IF kind = "not_json"
       THEN Becomes(Send(S, c, JsonErrorMessage))
       ELSE Becomes(S)

\* the peer closes the connection
Close(c) ==
    /\ conn[c] = "open"
    /\ Becomes([MonitorState EXCEPT !.conn[c] = "closed"])

\* register_client: the receive loop ends on the closed connection and the
\* finally block runs self.connected_clients.remove(websocket), a KeyError when a
\* broadcast has removed the connection already
HandlerExit(c) ==
    /\ task_pc[c] = "recv" /\ conn[c] = "closed"
    /\ LET S == MonitorState IN
       IF c \in S.clients
       THEN Becomes([S EXCEPT !.clients = @ \ {c}, !.pc[c] = "closed"])
       ELSE Becomes([S EXCEPT !.pc[c] = "crashed"])

\* stop_monitoring: self.stats['monitoring_active'] = False
StopMonitoring ==
    /\ monitoring_active
    /\ Becomes([MonitorState EXCEPT !.active = FALSE])

\* start_server, finally: monitoring_task.cancel() and stop_monitoring(); the
\* driver loop gets CancelledError where it is suspended, which neither
\* `except Exception` catches
Shutdown ==
    /\ task_pc["loop"] \notin {"cancelled", "stopped"}
    /\ Becomes([MonitorState EXCEPT !.active = FALSE,
                                    !.pc["loop"] = "cancelled",
                                    !.frame["loop"] = NoFrame])

(***************************************************************************)
(* Specifications of the analyzer: the batch varies in market, side and    *)
(* time (SpecCluster) or in time, wallet and size (SpecScore).             *)
(***************************************************************************)
\* the second market and the missing market id occur on the BUY side only
ClusterTrades ==
    {t \in [id : {0}, conditionId : Markets, side : Sides, timestamp : Timestamps,
            proxyWallet : {"w1"}, size : {1}] :
        t.conditionId # "M1" => t.side = "BUY"}

ScoreTrades ==
    [id : {0}, conditionId : {"M1"}, side : {"BUY"}, timestamp : Timestamps,
     proxyWallet : Wallets, size : Sizes]

\* RealTimeMonitor.__init__
InitMonitor ==
    /\ connected_clients = {}
    /\ alert_thresholds = [risk_score         |-> Rat(DefaultRiskThreshold, 1),
                           anomaly_percentage |-> Rat(DefaultAnomalyThreshold, 1),
                           cluster_count      |-> Rat(DefaultClusterThreshold, 1),
                           volume_spike       |-> Rat(DefaultVolumeSpike, 1)]
    /\ volume_history = <<>>
    /\ risk_history = <<>>
    /\ total_alerts = 0
    /\ monitoring_active = FALSE
    /\ last_risk_score = Rat(0, 1)
    /\ last_analysis_time = 0
    /\ clock = 0
    /\ conn = [c \in Clients |-> "new"]
    /\ commands = [c \in Clients |-> 0]
    /\ rejected = [c \in Clients |-> <<>>]
    /\ task_pc = [t \in Tasks |-> IF t = "loop" THEN "init" ELSE "new"]
    /\ frame = [t \in Tasks |-> NoFrame]
    /\ outbox = [c \in Clients |-> NoMessage]
    /\ evaluations = <<>>

InitAnalyzer ==
    /\ sync_threshold \in SyncThresholds
    /\ cache_trades = <<>>
    /\ analyzer_pc = "load"
    /\ sync_clusters = <<>>
    /\ all_clusters = <<>>

\* no call of detect_anomalies is followed
InitDetector ==
    /\ detector_trades = <<>>
    /\ detector_pc = "done"
    /\ detector_call = "none"
    /\ anomalous_trades = <<>>
    /\ wallet_clusters = EmptyDict

InitCluster == InitAnalyzer /\ InitMonitor /\ InitDetector

NextCluster ==
    \/ \E trade \in ClusterTrades : LoadTrade(trade)
    \/ find_all_clusters

SpecCluster == InitCluster /\ [][NextCluster]_vars

InitScore == InitAnalyzer /\ InitMonitor /\ InitDetector

NextScore ==
    \/ \E trade \in ScoreTrades : LoadTrade(trade)
    \/ find_all_clusters

SpecScore == InitScore /\ [][NextScore]_vars

(***************************************************************************)
(* Specifications of the monitor.                                          *)
(***************************************************************************)
\* what a pass finds in the cache: nothing, a batch too small to analyse, or a
\* batch with what the detectors report on it.  A wallet cluster needs 5 wallets
\* of 3 trades each, a market is analysed from 5 trades on.
ScansOf(counts, volumes, tenths, clusters, markets) ==
    {s \in [total_trades : counts, volume : volumes \cup {0},
            anomalies : {(n * k) \div 10 : n \in counts, k \in tenths} \cup {0},
            wallet_clusters : clusters \cup {0}, suspicious_pattern : BOOLEAN,
            suspicious_markets : markets \cup {0}] :
        /\ (s.total_trades = 0) = (s.volume = 0)
        /\ s.total_trades < MinTradesForAnalysis =>
              /\ s.anomalies = 0 /\ s.wallet_clusters = 0
              /\ ~s.suspicious_pattern /\ s.suspicious_markets = 0
        /\ \E k \in tenths \cup {0} : s.anomalies * 10 = s.total_trades * k
        /\ s.wallet_clusters * 15 <= s.total_trades
        /\ s.suspicious_markets * 5 <= s.total_trades}

\* the passes interleaved with commands: a batch too small to analyse, and ten
\* trades with or without a suspicious temporal pattern
MonitorScans ==
    {s \in ScansOf({5, 10}, {100, 250}, {}, {}, {}) :
        /\ s.total_trades = 5 => s.volume = 100
        /\ s.total_trades = 10 => (s.suspicious_pattern = (s.volume = 250))}

\* the thresholds an update_thresholds command names
ThresholdUpdates ==
    {("risk_score" :> Rat(0, 1)),
     ("risk_score" :> Rat(2, 1)) @@ ("volume_spike" :> Rat(3, 1))}

\* the monitor always builds its analyzer with the default threshold
Init ==
    /\ InitMonitor
    /\ InitAnalyzer
    /\ InitDetector
    /\ sync_threshold = 180

\* the driver loop and two subscribers that send commands
Next ==
    \/ \E scan \in MonitorScans, first \in Clients :
          LoopIterate(scan, first, MaxPasses)
    \/ \E t \in Tasks, pick \in Clients \cup {"end"}, first \in Clients :
          BroadcastStep(t, pick, first)
    \/ \E c \in Clients, type \in {"current_state", "error"} : Connect(c, type)
    \/ \E c \in Clients, update \in ThresholdUpdates, first \in Clients :
          UpdateThresholds(c, update, first)
    \/ \E c \in Clients, scan \in MonitorScans, first \in Clients :
          ForceAnalysis(c, scan, first, MaxPasses)
    \/ \E c \in Clients : GetStatus(c)

Spec == Init /\ [][Next]_vars

\* the passes of the driver loop alone: an empty cache, a batch too small to
\* analyse, ten trades with a suspicious temporal pattern
HistoryScans ==
    {s \in ScansOf({0, 5, 10}, {100, 250}, {}, {}, {}) :
        /\ s.total_trades = 5 => s.volume = 100
        /\ s.total_trades = 10 => s.volume = 250 /\ s.suspicious_pattern}

NextHistory ==
    \E scan \in HistoryScans, first \in Clients :
        LoopIterate(scan, first, MaxHistoryPasses)

SpecHistory == Init /\ [][NextHistory]_vars

\* what the detectors can report on a batch: anomalies in 20% or 30% of the
\* trades, 20 wallet clusters, 10 manipulated markets
AlertScans == ScansOf({0, 5, 10, 300}, {100, 250}, {2, 3}, {20}, {10})

\* the thresholds the one subscriber of SpecAlerts may set
AlertThresholdUpdates ==
    ThresholdUpdates
    \cup {("anomaly_percentage" :> Rat(25, 1)) @@ ("cluster_count" :> Rat(21, 1))}

\* the driver loop and one subscriber
NextAlerts ==
    \/ \E scan \in AlertScans : LoopIterate(scan, "c1", MaxPasses)
    \/ \E pick \in {"c1", "end"} : BroadcastStep("loop", pick, "c1")
    \/ \E pick \in {"c1", "end"} : BroadcastStep("c1", pick, "c1")
    \/ \E type \in {"current_state", "error"} : Connect("c1", type)
    \/ \E update \in AlertThresholdUpdates : UpdateThresholds("c1", update, "c1")

SpecAlerts == Init /\ [][NextAlerts]_vars

\* what the detectors can report, around the caps of the factors: anomalies in
\* 10%, 50% or all of the trades; 1, 5, 6 or 20 wallet clusters; 1, 3, 4 or 134
\* markets with manipulation signals
RiskScans == ScansOf({5, 10, 90, 300, 670}, {100}, {1, 5, 10}, {1, 5, 6, 20}, {1, 3, 4, 134})

\* the driver loop alone, over every such batch
NextRisk ==
    \E scan \in RiskScans, first \in Clients : LoopIterate(scan, first, MaxRiskPasses)

SpecRisk == Init /\ [][NextRisk]_vars

\* risk_score thresholds at and just above the greatest risk score
RiskThresholdUpdates == {("risk_score" :> Rat(10, 1)), ("risk_score" :> Rat(11, 1))}

\* the driver loop over every batch of RiskScans and one subscriber that may set
\* the risk_score threshold
NextRiskAlerts ==
    \/ \E scan \in RiskScans : LoopIterate(scan, "c1", MaxRiskPasses)
    \/ \E t \in {"loop", "c1"}, pick \in {"c1", "end"} : BroadcastStep(t, pick, "c1")
    \/ Connect("c1", "current_state")
    \/ \E update \in RiskThresholdUpdates : UpdateThresholds("c1", update, "c1")

SpecRiskAlerts == Init /\ [][NextRiskAlerts]_vars

\* the batch of the passes whose broadcasts are followed: ten trades, no finding
FanoutScans ==
    {s \in ScansOf({10}, {100}, {}, {}, {}) : ~s.suspicious_pattern}

\* the driver loop and two subscribers that connect and disconnect
NextFanout ==
    \/ \E scan \in FanoutScans, first \in Clients :
          LoopIterate(scan, first, MaxPasses)
    \/ \E t \in Tasks, pick \in Clients \cup {"end"}, first \in Clients :
          BroadcastStep(t, pick, first)
    \/ \E c \in Clients : Connect(c, "current_state")
    \/ \E c \in Clients : Close(c)
    \/ \E c \in Clients : HandlerExit(c)

SpecFanout == Init /\ [][NextFanout]_vars

\* batches of ten trades with a finding of every detector, on which no detector
\* or one detector raises
DetectorScans ==
    LET found == {s \in ScansOf({10}, {100}, {1}, {}, {1}) :
                     /\ s.anomalies = 1 /\ s.suspicious_pattern
                     /\ s.suspicious_markets = 1}
    IN  found \cup {FailingScan(s, d) : s \in found, d \in Detectors}

\* the driver loop over the batches of DetectorScans and two subscribers
NextDetector ==
    \/ \E scan \in DetectorScans, first \in Clients :
          LoopIterate(scan, first, MaxPasses)
    \/ \E t \in Tasks, pick \in Clients \cup {"end"}, first \in Clients :
          BroadcastStep(t, pick, first)
    \/ \E c \in Clients, type \in {"current_state", "error"} : Connect(c, type)

SpecDetector == Init /\ [][NextDetector]_vars

\* batches of 0, 1, 9 and 10 trades of amount 1, one of them possibly of amount
\* 6000
DetectorBatches ==
    {[i \in 1..n |-> [amount |-> IF i = big THEN 6000 ELSE 1,
                      wallet |-> IF i = big THEN "w2" ELSE "w1"]] :
        n \in {0, 1, MinTradesForAnomalies - 1, MinTradesForAnomalies},
        big \in 0..MinTradesForAnomalies}

InitAnomalies ==
    /\ InitMonitor
    /\ InitAnalyzer
    /\ detector_trades \in DetectorBatches
    /\ detector_pc = "call"
    /\ detector_call = "none"
    /\ anomalous_trades = <<>>
    /\ wallet_clusters = EmptyDict

NextAnomalies ==
    \E flagged \in SUBSET (1..MinTradesForAnomalies) : detect_anomalies(flagged)

SpecAnomalies == InitAnomalies /\ [][NextAnomalies]_vars

\* the wallets of the batches given to detect_wallet_clusters
ClusterWalletNames == <<"0xa", "0xb", "0xc", "0xd", "0xe", "0xf">>

\* a normalised trade record of the cache
WalletTrade(wallet) ==
    [wallet |-> wallet, amount |-> 100, market_id |-> "M1", side |-> "YES"]

\* batches in which the first `three` wallets have 3 trades each, the next
\* `two` wallets 2 trades each, followed by `single` trades of one more wallet
WalletBatches ==
    {[i \in 1..(3 * three + 2 * two + single) |->
         WalletTrade(IF i <= 3 * three
                     THEN ClusterWalletNames[(i - 1) \div 3 + 1]
                     ELSE IF i <= 3 * three + 2 * two
                     THEN ClusterWalletNames[three + (i - 3 * three - 1) \div 2 + 1]
                     ELSE "0x0")] :
        three \in 0..5, two \in 0..1, single \in {0, 1, 2, 4, 10}}

InitWallets ==
    /\ InitMonitor
    /\ InitAnalyzer
    /\ detector_trades \in WalletBatches
    /\ detector_pc = "call"
    /\ detector_call = "none"
    /\ anomalous_trades = <<>>
    /\ wallet_clusters = EmptyDict

NextWallets ==
    \E cluster \in SUBSET Range(ClusterWalletNames) : detect_wallet_clusters(cluster)

SpecWallets == InitWallets /\ [][NextWallets]_vars

\* the driver loop and two subscribers that update thresholds and disconnect
NextThresholds ==
    \/ \E scan \in FanoutScans, first \in Clients :
          LoopIterate(scan, first, MaxRiskPasses)
    \/ \E t \in Tasks, pick \in Clients \cup {"end"}, first \in Clients :
          BroadcastStep(t, pick, first)
    \/ \E c \in Clients : Connect(c, "current_state")
    \/ \E c \in Clients, update \in ThresholdUpdates, first \in Clients :
          UpdateThresholds(c, update, first)
    \/ \E c \in Clients : Close(c)
    \/ \E c \in Clients : HandlerExit(c)

SpecThresholds == Init /\ [][NextThresholds]_vars

\* two subscribers that send malformed payloads and get_status commands
NextInbound ==
    \/ \E c \in Clients, type \in {"current_state", "error"} : Connect(c, type)
    \/ \E c \in Clients, kind \in MalformedKinds : Malformed(c, kind)
    \/ \E c \in Clients : GetStatus(c)
    \/ \E c \in Clients : Close(c)
    \/ \E c \in Clients : HandlerExit(c)

SpecInbound == Init /\ [][NextInbound]_vars

\* the batches of the ticks of the driver loop: one too small to analyse, whose
\* alert evaluation fails, and one of ten trades
LoopScans ==
    {s \in ScansOf({5, 10}, {100}, {}, {}, {}) : ~s.suspicious_pattern}

\* a tick of the driver loop
Tick ==
    \E scan \in LoopScans, first \in Clients : LoopIterate(scan, first, MaxPasses)

\* the driver loop, two subscribers that connect and disconnect, and the stop of
\* the monitor
NextLoop ==
    \/ Tick
    \/ \E t \in Tasks, pick \in Clients \cup {"end"}, first \in Clients :
          BroadcastStep(t, pick, first)
    \/ \E c \in Clients : Connect(c, "current_state")
    \/ \E c \in Clients : Close(c)
    \/ \E c \in Clients : HandlerExit(c)
    \/ StopMonitoring
    \/ Shutdown

SpecLoop == Init /\ [][NextLoop]_vars

\* the event loop runs the driver loop again once its sleep has elapsed
SpecLoopFair == SpecLoop /\ WF_vars(Tick)

(***************************************************************************)
(* Properties of the sync clustering (SpecCluster, SpecScore).             *)
(***************************************************************************)
RecognizedSides == {"BUY", "SELL"}

BatchTrades == Range(cache_trades)

\* the member sets of a list of clusters
ClusterSets(clusters) == {Range(clusters[i]) : i \in DOMAIN clusters}

InSomeCluster(t) == \E members \in ClusterSets(sync_clusters) : t \in members

InSameCluster(a, b) ==
    \E members \in ClusterSets(sync_clusters) : a \in members /\ b \in members

WellFormed(t) == t.conditionId # "" /\ t.side \in RecognizedSides

\* the trades of the batch on the market and side of t
GroupOf(t) ==
    {u \in BatchTrades : u.conditionId = t.conditionId /\ u.side = t.side}

\* C1: every cluster has at least 2 members, all of them trades of the batch with
\* one non-empty market id and one side of the enum; a trade with a missing
\* market id or a side outside the enum is in no cluster.
C1_ClustersShareMarketAndSide ==
    analyzer_pc = "done" =>
        /\ \A i \in DOMAIN sync_clusters :
              LET cluster == sync_clusters[i] IN
              /\ Len(cluster) >= 2
              /\ \A j \in DOMAIN cluster :
                    /\ cluster[j] \in BatchTrades
                    /\ WellFormed(cluster[j])
                    /\ cluster[j].conditionId = cluster[1].conditionId
                    /\ cluster[j].side = cluster[1].side
        /\ \A t \in BatchTrades : ~WellFormed(t) => ~InSomeCluster(t)

\* a cluster was produced while the batch holds, at the timestamp of one of its
\* members, a trade of the same market that is malformed (side outside the enum)
C1_Witness ==
    /\ analyzer_pc = "done"
    /\ \E members \in ClusterSets(sync_clusters) : \E m \in members :
          \E t \in BatchTrades :
              /\ ~WellFormed(t)
              /\ t.conditionId = m.conditionId
              /\ t.timestamp = m.timestamp

\* a and b are neighbours in time within their group: no trade lies strictly between
TimeAdjacent(a, b) ==
    /\ a # b
    /\ b \in GroupOf(a)
    /\ a.timestamp <= b.timestamp
    /\ ~\E c \in GroupOf(a) : a.timestamp < c.timestamp /\ c.timestamp < b.timestamp

\* C2: two time-adjacent trades of a group are in the same cluster iff their gap
\* is <= the threshold (so gaps chain from the cluster's last trade and equal
\* timestamps merge); a trade farther than the threshold from every other trade
\* of its group is in no cluster, and no trade is in two clusters.
C2_AdjacentMergedIffWithinThreshold ==
    analyzer_pc = "done" =>
        /\ \A a, b \in {t \in BatchTrades : WellFormed(t)} :
              TimeAdjacent(a, b) =>
                 (InSameCluster(a, b) <=> b.timestamp - a.timestamp <= sync_threshold)
        /\ \A a \in BatchTrades :
              (\A b \in GroupOf(a) \ {a} :
                   \/ b.timestamp - a.timestamp > sync_threshold
                   \/ a.timestamp - b.timestamp > sync_threshold)
                 => ~InSomeCluster(a)
        /\ \A i, j \in DOMAIN sync_clusters :
              i # j => Range(sync_clusters[i]) \cap Range(sync_clusters[j]) = {}

\* a cluster chained beyond the threshold from its first trade: every gap between
\* neighbours is within the threshold, the whole window is not
C2_Witness ==
    /\ analyzer_pc = "done"
    /\ \E members \in ClusterSets(sync_clusters) :
          \E a, b \in members : b.timestamp - a.timestamp > sync_threshold

\* the batches that hold the trades of batch in another order
PermutedBatches(batch) ==
    LET n == Len(batch)
        bijections == {p \in [1..n -> 1..n] : \A i, j \in 1..n : i # j => p[i] # p[j]}
    IN  {[i \in 1..n |-> batch[p[i]]] : p \in bijections}

\* C3: grouping and sweeping any permutation of the batch yields the same set of
\* clusters, each compared as a set of member trades.
C3_OrderIndependent ==
    analyzer_pc = "done" =>
        \A permuted \in PermutedBatches(cache_trades) :
            ClusterSets(SyncClustersOf(permuted, sync_threshold))
                = ClusterSets(sync_clusters)

\* clusters were produced from a batch that is not in timestamp order
C3_Witness ==
    /\ analyzer_pc = "done"
    /\ sync_clusters # <<>>
    /\ \E i, j \in DOMAIN cache_trades :
          /\ i < j
          /\ cache_trades[i].timestamp > cache_trades[j].timestamp
          /\ InSameCluster(cache_trades[i], cache_trades[j])

\* the batch of the example: three trades of one market and side at 0, 100 and 500
ExampleBatch ==
    /\ Len(cache_trades) = 3
    /\ \A t \in BatchTrades : WellFormed(t) /\ GroupOf(t) = BatchTrades
    /\ {cache_trades[i].timestamp : i \in DOMAIN cache_trades} = {0, 100, 500}

\* C5: with threshold 180 the example batch yields exactly one cluster, made of the
\* trades at 0 and 100; the trade at 500 is in none.
C5_ExampleOneCluster ==
    (analyzer_pc = "done" /\ sync_threshold = 180 /\ ExampleBatch) =>
        /\ Len(sync_clusters) = 1
        /\ Range(sync_clusters[1]) = {t \in BatchTrades : t.timestamp \in {0, 100}}
        /\ Len(all_clusters) = 1
        /\ all_clusters[1].trades_count = 2

\* the example batch was clustered with threshold 180
C5_Witness ==
    analyzer_pc = "done" /\ sync_threshold = 180 /\ ExampleBatch
        /\ cache_trades[1].timestamp = 0 /\ cache_trades[2].timestamp = 100

\* the report r describes the cluster
ReportOf(r, cluster) ==
    /\ r.trades_count = Len(cluster)
    /\ r.wallets = {cluster[i].proxyWallet : i \in DOMAIN cluster}
    /\ \E i \in DOMAIN cluster : r.start_time = cluster[i].timestamp
    /\ \E i \in DOMAIN cluster : r.end_time = cluster[i].timestamp
    /\ \A i \in DOMAIN cluster :
          r.start_time <= cluster[i].timestamp /\ cluster[i].timestamp <= r.end_time

\* C4: every cluster has a report whose time_window_seconds is the largest member
\* timestamp minus the smallest, and every report's sync_score is within [0, 100].
C4_WindowExactScoreClamped ==
    analyzer_pc = "done" =>
        /\ Len(all_clusters) = Len(sync_clusters)
        /\ \A i \in DOMAIN sync_clusters :
              \E j \in DOMAIN all_clusters :
                  /\ ReportOf(all_clusters[j], sync_clusters[i])
                  /\ all_clusters[j].time_window_seconds
                        = all_clusters[j].end_time - all_clusters[j].start_time
        /\ \A j \in DOMAIN all_clusters :
              /\ all_clusters[j].sync_score.den > 0
              /\ 0 <= all_clusters[j].sync_score.num
              /\ all_clusters[j].sync_score.num <= 100 * all_clusters[j].sync_score.den
              /\ \E i \in DOMAIN sync_clusters :
                    ReportOf(all_clusters[j], sync_clusters[i])

\* a cluster chained beyond the threshold, its raw score negative, reported with
\* score 0; and a cluster reported with a score strictly inside (0, 100)
C4_Witness ==
    /\ analyzer_pc = "done"
    /\ \E j \in DOMAIN all_clusters :
          /\ all_clusters[j].time_window_seconds > sync_threshold
          /\ all_clusters[j].sync_score.num = 0
          /\ \E i \in DOMAIN sync_clusters :
                /\ ReportOf(all_clusters[j], sync_clusters[i])
                /\ RawScoreNum(sync_clusters[i], sync_threshold) < 0

(***************************************************************************)
(* Properties of the monitor.  `evaluations` is the record of the passes   *)
(* that reached check_alerts: what each measured, the thresholds in force  *)
(* and the AlertEvents it produced.                                        *)
(***************************************************************************)
LastN(s, n) == IF Len(s) <= n THEN s ELSE SubSeq(s, Len(s) - n + 1, Len(s))

\* the measurements of the passes, in arrival order
VolumesMeasured == [i \in DOMAIN evaluations |-> evaluations[i].scan.volume]
RisksMeasured == [i \in DOMAIN evaluations |-> evaluations[i].analysis.risk_score]

\* C6: the volume history holds at most 10 entries and the risk history at most
\* 5; every pass that analysed a batch appended one volume and one risk score,
\* and a full history dropped its oldest entry, so each history is the most
\* recent measurements in arrival order
C6_HistoriesHoldMostRecent ==
    /\ Len(volume_history) <= 10
    /\ Len(risk_history) <= 5
    /\ volume_history = LastN(VolumesMeasured, 10)
    /\ risk_history = LastN(RisksMeasured, 5)

\* eleven passes, one of them successful, and the first volume measured has left
\* the full history
C6_Witness ==
    /\ Len(evaluations) = 11
    /\ Len(volume_history) = 10 /\ Len(risk_history) = 5
    /\ volume_history[1] # evaluations[1].scan.volume
    /\ risk_history[1] # evaluations[1].analysis.risk_score
    /\ \E i \in DOMAIN evaluations : ~evaluations[i].raised

AlertsOfType(alerts, type) == SelectSeq(alerts, LAMBDA a : a.type = type)

\* latest / previous of a volume history of two entries or more
SpikeRatio(h) == Rat(h[Len(h)], h[Len(h) - 1])

\* C7: a pass produces a volume_spike alert if and only if the volume history
\* has at least 2 entries and latest/previous >= the volume_spike threshold, with
\* severity high from a ratio of 5 on and medium below; the history [100, 250]
\* under the threshold 2.0 gives exactly one volume_spike alert of value 2.5
C7_VolumeSpikeIffRatioAtThreshold ==
    \A i \in DOMAIN evaluations :
        LET e == evaluations[i]
            h == e.volume_history
            spikes == AlertsOfType(e.alerts, "volume_spike")
        IN  /\ IF Len(h) >= 2 /\ RatGeq(SpikeRatio(h), e.thresholds.volume_spike)
               THEN /\ Len(spikes) = 1
                    /\ RatEq(spikes[1].value, SpikeRatio(h))
                    /\ spikes[1].severity =
                          IF RatGeq(SpikeRatio(h), Rat(5, 1)) THEN "high" ELSE "medium"
               ELSE spikes = <<>>
            /\ (h = <<100, 250>> /\ RatEq(e.thresholds.volume_spike, Rat(2, 1))) =>
                  Len(spikes) = 1 /\ RatEq(spikes[1].value, Rat(5, 2))

AlertTypes ==
    {"high_risk", "high_anomalies", "many_clusters", "volume_spike",
     "suspicious_patterns", "price_manipulation"}

\* whether the analysis of evaluation e meets the condition of an alert type
Triggered(e, type) ==
    CASE type = "high_risk" ->
            RatGeq(e.analysis.risk_score, e.thresholds.risk_score)
      [] type = "high_anomalies" ->
            /\ e.scan.total_trades >= 10
            /\ RatGeq(Rat(100 * e.scan.anomalies, e.scan.total_trades),
                      e.thresholds.anomaly_percentage)
      [] type = "many_clusters" ->
            /\ e.scan.total_trades >= 10
            /\ RatGeq(Rat(e.scan.wallet_clusters, 1), e.thresholds.cluster_count)
      [] type = "volume_spike" ->
            /\ Len(e.volume_history) >= 2
            /\ RatGeq(SpikeRatio(e.volume_history), e.thresholds.volume_spike)
      [] type = "suspicious_patterns" -> e.scan.suspicious_pattern
      [] type = "price_manipulation" -> e.scan.suspicious_markets >= 10

\* the latest evaluation of a task
LastEvaluationBy(t) ==
    evaluations[CHOOSE i \in DOMAIN evaluations :
                   /\ evaluations[i].task = t
                   /\ \A j \in DOMAIN evaluations :
                         evaluations[j].task = t => j <= i]

\* C8: in every pass each triggered alert condition produces exactly one
\* AlertEvent and an untriggered one none, and the pass sends all its AlertEvents
\* in one analysis_update message together with the analysis
C8_OneAlertPerConditionInOneUpdate ==
    /\ \A i \in DOMAIN evaluations : \A type \in AlertTypes :
          Len(AlertsOfType(evaluations[i].alerts, type))
             = IF Triggered(evaluations[i], type) THEN 1 ELSE 0
    /\ \A t \in Tasks :
          frame[t].kind \in {"analysis_update", "error"} =>
             LET e == LastEvaluationBy(t) IN
             /\ frame[t].msg.type = "analysis_update"
             /\ frame[t].msg.alerts = e.alerts
             /\ frame[t].msg.analysis = e.analysis
    /\ \A c \in Clients :
          outbox[c].type = "analysis_update" =>
             \E i \in DOMAIN evaluations :
                /\ outbox[c].timestamp = evaluations[i].timestamp
                /\ outbox[c].alerts = evaluations[i].alerts
                /\ outbox[c].analysis = evaluations[i].analysis

\* C10: a pass raises a high_risk alert if and only if its risk_score is >= the
\* risk_score threshold, with severity high from a score of 80 on and medium
\* below
C10_HighRiskIffAtThreshold ==
    \A i \in DOMAIN evaluations :
        LET e == evaluations[i]
            risks == AlertsOfType(e.alerts, "high_risk")
        IN  IF RatGeq(e.analysis.risk_score, e.thresholds.risk_score)
            THEN /\ Len(risks) = 1
                 /\ risks[1].severity =
                       IF RatGeq(e.analysis.risk_score, Rat(80, 1))
                       THEN "high" ELSE "medium"
            ELSE risks = <<>>

\* the threshold in force, at evaluation e, for the condition of AlertEvent a
ComparedThreshold(e, a) ==
    CASE a.type = "high_risk" -> e.thresholds.risk_score
      [] a.type = "high_anomalies" -> e.thresholds.anomaly_percentage
      [] a.type = "many_clusters" -> e.thresholds.cluster_count
      [] a.type = "volume_spike" -> e.thresholds.volume_spike

\* what evaluation e observed for the condition of AlertEvent a
ObservedValue(e, a) ==
    CASE a.type = "high_risk" -> e.analysis.risk_score
      [] a.type = "high_anomalies" ->
            Rat(100 * e.scan.anomalies, e.scan.total_trades)
      [] a.type = "many_clusters" -> Rat(e.scan.wallet_clusters, 1)
      [] a.type = "volume_spike" -> SpikeRatio(e.volume_history)

ThresholdAlertTypes ==
    {"high_risk", "high_anomalies", "many_clusters", "volume_spike"}

\* the analysis_update messages received or being sent
AnalysisUpdates ==
    {m \in {outbox[c] : c \in Clients}
           \cup {frame[t].msg : t \in {u \in Tasks : frame[u].kind # "none"}} :
        m.type = "analysis_update"}

\* every AlertEvent holds the threshold of its evaluation and a value at or above it
RecordsComparedThreshold ==
    \A i \in DOMAIN evaluations : \A k \in DOMAIN evaluations[i].alerts :
        LET e == evaluations[i]
            a == e.alerts[k]
        IN  a.type \in ThresholdAlertTypes =>
               /\ a.threshold = ComparedThreshold(e, a)
               /\ RatEq(a.value, ObservedValue(e, a))
               /\ RatGeq(a.value, a.threshold)

\* a message dispatched holds the AlertEvents of its pass as they were evaluated
DispatchedAsEvaluated ==
    \A m \in AnalysisUpdates :
        \E i \in DOMAIN evaluations :
            /\ m.timestamp = evaluations[i].timestamp
            /\ m.alerts = evaluations[i].alerts

\* no step changes an AlertEvent produced, in flight or received
AlertEventsKept ==
    /\ \A i \in DOMAIN evaluations :
          /\ i \in DOMAIN evaluations'
          /\ evaluations'[i] = evaluations[i]
    /\ \A t \in Tasks :
          (frame[t].kind = "analysis_update" /\ frame'[t].kind = "analysis_update")
             => frame'[t].msg = frame[t].msg
    /\ \A c \in Clients :
          (outbox[c].type = "analysis_update" /\ outbox'[c].type = "analysis_update"
              /\ outbox'[c].timestamp = outbox[c].timestamp)
             => outbox'[c] = outbox[c]

\* C9: under any interleaving of update_thresholds commands with passes, every
\* AlertEvent records the threshold its value was compared against when it was
\* evaluated, and a later update_thresholds never changes the threshold, value or
\* existence of an AlertEvent already produced or dispatched
C9_ThresholdSnapshotAtEvaluation ==
    /\ [](RecordsComparedThreshold /\ DispatchedAsEvaluated)
    /\ [][AlertEventsKept]_vars

\* a subscriber holds a high_risk AlertEvent evaluated under a threshold that an
\* update_thresholds has replaced since
C9_Witness ==
    \E c \in Clients :
        /\ outbox[c].type = "analysis_update"
        /\ \E k \in DOMAIN outbox[c].alerts :
              /\ outbox[c].alerts[k].type = "high_risk"
              /\ outbox[c].alerts[k].threshold # alert_thresholds.risk_score

(***************************************************************************)
(* Properties of the risk aggregator.                                      *)
(***************************************************************************)
\* the passes that ran the detectors
Analysed == {i \in DOMAIN evaluations : evaluations[i].scan.total_trades >= 10}

\* C11: for every trade batch the risk_score that comprehensive_analysis returns
\* lies in [0, 100]
C11_RiskScoreWithinBounds ==
    \A i \in DOMAIN evaluations :
        LET risk == evaluations[i].analysis.risk_score IN
        /\ risk.den > 0
        /\ RatGeq(risk, Rat(0, 1))
        /\ RatGeq(Rat(100, 1), risk)

\* a batch has been scored in which every trade is anomalous, the pattern is
\* suspicious and the cluster and price factors exceed their caps
C11_Witness ==
    \E i \in Analysed :
        /\ evaluations[i].scan.wallet_clusters * 2 > 10
        /\ evaluations[i].scan.suspicious_markets * 3 > 10
        /\ evaluations[i].scan.suspicious_pattern
        /\ evaluations[i].scan.anomalies = evaluations[i].scan.total_trades

\* the formula of the aggregator as a numerator over 100 * len(trades), the
\* denominator of risk_score: anomaly_percentage / 10 is 10 * anomalies / len(trades)
FormulaMin(a, b) == IF a <= b THEN a ELSE b
FormulaMax(a, b) == IF a >= b THEN a ELSE b
FormulaRiskNum(scan) ==
    LET n == scan.total_trades
        sum == 30 * FormulaMin(10 * scan.anomalies, 10 * n)
               + 25 * n * FormulaMin(scan.wallet_clusters * 2, 10)
               + 20 * n * (IF scan.suspicious_pattern THEN 10 ELSE 0)
               + 25 * n * FormulaMin(scan.suspicious_markets * 3, 10)
    IN  FormulaMax(0, FormulaMin(sum, 100 * 100 * n))

C13_NoFindingsNoRisk ==
    \A i \in DOMAIN evaluations :
        LET scan == evaluations[i].scan IN
        (/\ scan.anomalies = 0 /\ scan.wallet_clusters = 0
         /\ ~scan.suspicious_pattern /\ scan.suspicious_markets = 0)
           => evaluations[i].analysis.risk_score.num = 0

\* ten trades or more were analysed and nothing was found
C13_Witness ==
    \E i \in Analysed :
        LET scan == evaluations[i].scan IN
        /\ scan.anomalies = 0 /\ scan.wallet_clusters = 0
        /\ ~scan.suspicious_pattern /\ scan.suspicious_markets = 0
        /\ evaluations[i].analysis.risk_score.num = 0

(***************************************************************************)
(* Properties of broadcast_message.                                        *)
(***************************************************************************)
\* task t leaves the broadcast_message call it was suspended in
LeavesBroadcast(t) ==
    /\ task_pc[t] = "bcast"
    /\ \/ task_pc'[t] # "bcast"
       \/ frame'[t].kind # frame[t].kind

\* C14: a failed send removes that subscriber from the active set and does not
\* abort the broadcast: when a broadcast with a failed send ends, every other
\* subscriber of the active set has been sent the message and the active set is
\* the previous set minus exactly the subscribers whose send failed
C14_FailedSendOnlyDropsSubscriber ==
    [][\A t \in Tasks :
          (LeavesBroadcast(t) /\ frame[t].disconnected # {}) =>
             /\ frame[t].start \ frame[t].disconnected \subseteq frame[t].visited
             /\ connected_clients' = frame[t].start \ frame[t].disconnected]_vars

(***************************************************************************)
(* Properties of the driver loop.                                          *)
(***************************************************************************)
\* the driver loop has sent its message to one more subscriber, or has returned
\* from its broadcast into the sleep of a completed tick
LoopBroadcastGoesOn ==
    /\ task_pc["loop"] = "bcast"
    /\ \/ /\ task_pc'["loop"] = "bcast"
          /\ frame'["loop"].kind = frame["loop"].kind
          /\ frame'["loop"].visited # frame["loop"].visited
       \/ task_pc'["loop"] = "sleep"

\* the driver loop has started a pass
LoopPassStarts ==
    /\ Len(evaluations') > Len(evaluations)
    /\ evaluations'[Len(evaluations')].task = "loop"

\* C16: once stop_monitoring has flipped the running flag the driver loop exits
\* at its next suspension point: it starts no further pass and does not complete
\* the broadcast of a tick in progress
C16_StopEndsLoopAtNextSuspension ==
    [][(~monitoring_active /\ task_pc["loop"] # "init") =>
          (~LoopPassStarts /\ ~LoopBroadcastGoesOn)]_vars

\* the number of passes at the end of the record whose alert evaluation failed
FailedTicks ==
    LET n == Len(evaluations) IN
    CHOOSE k \in 0..n :
        /\ \A i \in (n - k + 1)..n : evaluations[i].raised
        /\ k < n => ~evaluations[n - k].raised

\* C17: the monitor is idle until started and running from then on, and after
\* FailureBudget consecutive failed ticks it is stopped: the running flag is
\* false and the driver loop has ended
C17_StopsAfterFailureBudget ==
    /\ task_pc["loop"] = "init" => ~monitoring_active
    /\ (FailedTicks >= FailureBudget /\ task_pc["loop"] # "bcast") =>
          (~monitoring_active /\ task_pc["loop"] \in {"stopped", "cancelled"})

\* while the running flag is true the driver loop is alive: in a tick, in the
\* sleep after a tick or in the backoff after a failed one
LoopAlive ==
    monitoring_active => task_pc["loop"] \in {"sleep", "backoff", "bcast"}

\* C18: while the running flag is true a failure inside a tick never ends the
\* driver loop, and after the sleep or the backoff that follows the tick the
\* loop executes the next tick
C18_FailureNeverEndsLoop ==
    /\ []LoopAlive
    /\ \A n \in 0..(MaxPasses - 1) :
          (monitoring_active /\ task_pc["loop"] \in {"sleep", "backoff"} /\ clock = n)
             ~> (clock > n \/ ~monitoring_active)

\* the first tick failed in its alert evaluation, the loop went on to a second
\* tick, whose error broadcast failed, and is in its backoff with the flag true
C18_Witness ==
    /\ monitoring_active
    /\ task_pc["loop"] = "backoff"
    /\ Len(evaluations) = 2
    /\ evaluations[1].raised

(***************************************************************************)
(* Properties of the connection handlers.                                  *)
(***************************************************************************)
\* C15: every malformed inbound payload is answered with an error message to
\* the subscriber that sent it; the subscriber stays in connected_clients and
\* its handler goes on waiting for messages
C15_MalformedPayloadAnswered ==
    [][\A c \in Clients :
          rejected'[c] # rejected[c] =>
             /\ outbox'[c].type = "error"
             /\ c \in connected_clients'
             /\ task_pc'[c] = "recv"]_vars

(***************************************************************************)
(* Properties of a pass whose detector fails.                              *)
(***************************************************************************)
\* the batch as the analysis would see it with the failed detector left out
WithoutFailed(scan) ==
    IF "failed_detector" \notin DOMAIN scan THEN scan
    ELSE IF scan.failed_detector = "anomalies"
    THEN [scan EXCEPT !.anomalies = 0]
    ELSE IF scan.failed_detector = "wallet_clusters"
    THEN [scan EXCEPT !.wallet_clusters = 0]
    ELSE IF scan.failed_detector = "temporal_patterns"
    THEN [scan EXCEPT !.suspicious_pattern = FALSE]
    ELSE [scan EXCEPT !.suspicious_markets = 0]

\* C19: the failure of a single detector stays inside comprehensive_analysis:
\* every pass over a batch of trades reaches its alert evaluation, with the
\* analysis and risk score computed without the detector that failed, and no
\* pass broadcasts the error of a detector
C19_DetectorFailureStaysLocal ==
    [][/\ clock' # clock =>
             /\ Len(evaluations') = Len(evaluations) + 1
             /\ LET e == evaluations'[Len(evaluations')] IN
                e.analysis = comprehensive_analysis(WithoutFailed(e.scan))
       /\ \A t \in Tasks :
             frame'[t].kind = "error" => frame'[t].msg # DetectorErrorMessage]_vars

(***************************************************************************)
(* Properties of the detectors.                                            *)
(***************************************************************************)
\* C20: a detector is pure: the trade records it is given are the same after
\* the call as before it
C20_DetectorLeavesTradesUnchanged ==
    [][detector_trades' = detector_trades]_vars

(***************************************************************************)
(* Properties of the writers of the monitor state.                         *)
(***************************************************************************)
\* the connection handler of c takes the step: it serves a command or resumes
\* inside the broadcast it is suspended in
HandlerStep(c) ==
    \/ commands'[c] # commands[c]
    \/ task_pc'[c] # task_pc[c]
    \/ frame'[c] # frame[c]

\* C21: the threshold configuration, the histories, the alert counter and the
\* last-analysis time are written by the driver loop only: no step of a
\* connection handler changes any of them
C21_OnlyDriverLoopWritesState ==
    [][(\E c \in Clients : HandlerStep(c)) =>
          UNCHANGED <<alert_thresholds, volume_history, risk_history,
                      total_alerts, last_analysis_time>>]_vars

\* C22: on a batch of fewer than 10 trades, the empty batch included,
\* detect_anomalies returns an empty list and does not raise
C22_SmallBatchNoAnomalies ==
    (detector_call = "detect_anomalies" /\ Len(detector_trades) < 10) =>
       (detector_pc = "done" /\ anomalous_trades = <<>>)

\* detect_anomalies has returned on a batch of nine trades
C22_Witness ==
    /\ detector_call = "detect_anomalies"
    /\ detector_pc = "done"
    /\ Len(detector_trades) = 9
    /\ anomalous_trades = <<>>

\* the wallets of the batch with at least 3 trades each
WalletsWithThreeTrades ==
    {w \in {detector_trades[i].wallet : i \in DOMAIN detector_trades} :
        Cardinality({i \in DOMAIN detector_trades : detector_trades[i].wallet = w}) >= 3}

C24_SmallBatchPassCompletes ==
    \A i \in DOMAIN evaluations :
        LET e == evaluations[i] IN
        e.scan.total_trades < 10 =>
           /\ RatEq(e.analysis.risk_score, Rat(0, 1))
           /\ DOMAIN e.analysis.anomalies = {}
           /\ DOMAIN e.analysis.wallet_clusters = {}
           /\ ~e.raised

(***************************************************************************)
(* Properties of update_thresholds.                                        *)
(***************************************************************************)
\* the handler of c serves an update_thresholds command
UpdateStep(c) ==
    /\ commands'[c] = commands[c] + 1
    /\ task_pc'[c] = "bcast"
    /\ frame'[c].kind = "thresholds_updated"

\* the thresholds after the step are those before it with the values of one
\* update merged in: named thresholds new, the others as before
MergedByStep ==
    \E update \in ThresholdUpdates :
        /\ DOMAIN alert_thresholds' = DOMAIN alert_thresholds
        /\ \A k \in DOMAIN alert_thresholds :
              alert_thresholds'[k] =
                 IF k \in DOMAIN update THEN update[k] ELSE alert_thresholds[k]

\* the update step merges, leaves histories, counter and flag alone, and starts
\* the broadcast of the merged configuration
UpdateMergesAndAnnounces ==
    \A c \in Clients :
        UpdateStep(c) =>
           /\ MergedByStep
           /\ frame'[c].msg = [type       |-> "thresholds_updated",
                               thresholds |-> alert_thresholds']
           /\ UNCHANGED <<volume_history, risk_history, total_alerts,
                          monitoring_active>>

\* a pass started in this step evaluates its alerts with the live thresholds
NextEvaluationUsesLive ==
    Len(evaluations') > Len(evaluations) =>
       evaluations'[Len(evaluations')].thresholds = alert_thresholds

\* when the broadcast of thresholds_updated ends, every subscriber that was in
\* the set from its start to its end has been sent the message
AnnouncedToAll ==
    \A c \in Clients :
        (LeavesBroadcast(c) /\ frame[c].kind = "thresholds_updated") =>
           (frame[c].start \cap connected_clients') \subseteq frame[c].visited

\* C25: update_thresholds merges the supplied values into the live thresholds,
\* the next alert evaluation uses the merged configuration, thresholds_updated
\* with the merged configuration is sent to all active subscribers, and
\* histories, alert counter and running flag are unchanged
C25_UpdateThresholdsMergesAndBroadcasts ==
    [][UpdateMergesAndAnnounces /\ NextEvaluationUsesLive /\ AnnouncedToAll]_vars

(***************************************************************************)
(* Properties of the range of the risk score.                              *)
(***************************************************************************)
\* C26: the risk_score of every batch is at most 10, so a pass evaluated with a
\* risk_score threshold above 10, such as the default 50, raises no high_risk
\* alert
C26_RiskAtMostTenNoHighRisk ==
    \A i \in DOMAIN evaluations :
        LET e == evaluations[i] IN
        /\ RatGeq(Rat(10, 1), e.analysis.risk_score)
        /\ ~RatGeq(Rat(10, 1), e.thresholds.risk_score) =>
              AlertsOfType(e.alerts, "high_risk") = <<>>

\* a batch with the greatest risk score, 10, was evaluated with the threshold 11
\* and raised no high_risk alert
C26_Witness ==
    \E i \in DOMAIN evaluations :
        LET e == evaluations[i] IN
        /\ ~e.raised
        /\ RatEq(e.analysis.risk_score, Rat(10, 1))
        /\ RatEq(e.thresholds.risk_score, Rat(11, 1))
        /\ AlertsOfType(e.alerts, "high_risk") = <<>>

(***************************************************************************)
(* Properties of a broadcast during which the subscriber set changes.      *)
(***************************************************************************)
\* the broadcast the driver loop is suspended in fails: the pass turns to the
\* error broadcast, or the error broadcast sends the loop to its backoff
LoopBroadcastFails ==
    /\ task_pc["loop"] = "bcast"
    /\ \/ frame["loop"].kind = "analysis_update" /\ frame'["loop"].kind = "error"
       \/ task_pc'["loop"] = "backoff"

\* C27: a subscriber connecting or disconnecting while broadcast_message is
\* suspended in a send does not make the broadcast fail: the broadcast completes
\* and, when it ends, every subscriber that was in the set from its start to
\* its end has been sent the message
C27_BroadcastSurvivesSetChange ==
    [][/\ ~LoopBroadcastFails
       /\ \A t \in Tasks :
             LeavesBroadcast(t) =>
                (frame[t].start \cap connected_clients') \subseteq frame[t].visited]_vars

(***************************************************************************)
(* Properties of the teardown of a connection handler.                     *)
(***************************************************************************)
\* C28: the active set holds only connections whose handler is still running,
\* no handler's teardown ends in an error, and after its teardown a connection
\* is not in the set
C28_TeardownAlwaysClean ==
    \A c \in Clients :
        /\ c \in connected_clients => task_pc[c] \in {"recv", "bcast"}
        /\ task_pc[c] # "crashed"
        /\ task_pc[c] = "closed" => c \notin connected_clients

(***************************************************************************)
(* Properties of a pass that fails.                                        *)
(***************************************************************************)
\* a pass starts in this step and its alert evaluation raises
FailsInEvaluation ==
    /\ Len(evaluations') > Len(evaluations)
    /\ evaluations'[Len(evaluations')].raised

\* C29: a pass that fails leaves the monitor state unchanged: the volume and
\* risk histories, the alert counter, the last risk score and the last-analysis
\* time are what they were before the pass
C29_FailedPassLeavesStateUnchanged ==
    [][FailsInEvaluation =>
          UNCHANGED <<volume_history, risk_history, total_alerts,
                      last_risk_score, last_analysis_time>>]_vars

(***************************************************************************)
(* Properties of overlapping passes.                                       *)
(***************************************************************************)
\* every pass evaluates its alerts on a volume history whose latest entry is
\* the volume it measured and whose previous entry is the measurement recorded
\* just before, and its volume_spike alert follows from these two
OwnVolumeAgainstPreceding ==
    \A i \in DOMAIN evaluations :
        LET e == evaluations[i]
            h == e.volume_history
            spikes == AlertsOfType(e.alerts, "volume_spike")
        IN  /\ Len(h) >= 1 /\ h[Len(h)] = e.scan.volume
            /\ i > 1 => (Len(h) >= 2 /\ h[Len(h) - 1] = evaluations[i - 1].scan.volume)
            /\ ~e.raised =>
                  Len(spikes) = IF i > 1 /\ RatGeq(Rat(e.scan.volume,
                                                       evaluations[i - 1].scan.volume),
                                                   e.thresholds.volume_spike)
                                THEN 1 ELSE 0

\* the pass of task t returns from its broadcast and updates the statistics
CompletesPass(t) ==
    /\ task_pc[t] = "bcast"
    /\ frame[t].kind = "analysis_update"
    /\ Cardinality(connected_clients) = frame[t].used
    /\ task_pc'[t] # "bcast"

\* a completing pass adds the number of its AlertEvents to the counter as it is
\* then, whatever another pass has added since this one started
CounterAddsOwnAlerts ==
    \A t \in Tasks :
        CompletesPass(t) =>
           total_alerts' = total_alerts + Len(LastEvaluationBy(t).alerts)

\* C30: when a force_analysis pass and a pass of the driver loop overlap, each
\* evaluates its volume-spike condition with its own volume as the latest value
\* and the measurement recorded just before as the previous one, and the alert
\* counter after both have completed is its prior value plus the AlertEvents of
\* both
C30_OverlappingPassesKeepAccounts ==
    /\ []OwnVolumeAgainstPreceding
    /\ [][CounterAddsOwnAlerts]_vars

\* the force_analysis pass of c1 started while the pass of the driver loop was
\* suspended in its broadcast (the loop's message reached c1 after that of the
\* later pass), raised a volume_spike alert against the loop's volume, and both
\* have completed: the counter holds the alerts of both
C30_Witness ==
    /\ Len(evaluations) = 2
    /\ evaluations[1].task = "loop" /\ evaluations[2].task = "c1"
    /\ Len(evaluations[1].alerts) > 0
    /\ AlertsOfType(evaluations[2].alerts, "volume_spike") # <<>>
    /\ task_pc["loop"] = "sleep" /\ task_pc["c1"] = "recv"
    /\ outbox["c1"].type = "analysis_update"
    /\ outbox["c1"].timestamp = evaluations[1].timestamp
    /\ total_alerts = Len(evaluations[1].alerts) + Len(evaluations[2].alerts)

====
